---- MODULE Spec2Model ----
(***************************************************************************)
(* A model of hough_server: the supervisor (HoughServer.serve), the        *)
(* shutdown flag, the per-connection handler (HoughServer.handle_client),  *)
(* header validation (the pydantic models of protocol.py) and the shared   *)
(* ProcessPoolExecutor the handlers submit their detection tasks to.       *)
(*                                                                         *)
(* A connection's input is modelled by rendezvous: each read of the        *)
(* handler receives the frame its client sends next.  A client sends a     *)
(* header frame and then one body frame per ROI spec its header lists      *)
(* (owed counts the body frames it has still to send); the content of      *)
(* every frame is arbitrary within the sets below.  Locals of the handler  *)
(* that the code no longer reads are reset when the next frame is read.    *)
(***************************************************************************)
EXTENDS Integers, Sequences, FiniteSets

\* ---------------------------------------------------------------- bounds
MaxConns == 2
MaxRois == 2
MaxReq == 2

Conns == 1 .. MaxConns

\* ------------------------------------------------------- protocol.py data
IdNames == <<"a", "b", "c", "d">>

ROISpec(id, h, w, nb, mn, mx) ==
    [id |-> id, height |-> h, width |-> w, num_bytes |-> nb,
     min_radius_px |-> mn, max_radius_px |-> mx]

DetectRequest(type, hasParams, lo, hi, specs) ==
    [type |-> type, has_params |-> hasParams, canny_low |-> lo,
     canny_high |-> hi, roi_specs |-> specs]

\* a validator that compares with < where the code has <=
RadiiOkStrict(s) ==
    LET mrPresent == s.min_radius_px > 0
    IN  ~(mrPresent /\ s.max_radius_px < s.min_radius_px)

\* the field validator of max_radius_px: info.data holds min_radius_px only
\* when that field passed its own constraint
RadiiOk(s) ==
    LET mrPresent == s.min_radius_px > 0
    IN  ~(mrPresent /\ s.max_radius_px <= s.min_radius_px)

ValidROISpec(s) ==
    /\ s.height > 0
    /\ s.width > 0
    /\ s.num_bytes > 0
    /\ s.min_radius_px > 0
    /\ s.max_radius_px > 0
    /\ RadiiOk(s)

ValidParams(h) ==
    /\ h.has_params
    /\ h.canny_low >= 0 /\ h.canny_low <= 255
    /\ h.canny_high >= 0 /\ h.canny_high <= 255

\* DetectRequest.model_validate
ValidRequest(h) ==
    /\ h.type = "detect"
    /\ ValidParams(h)
    /\ Len(h.roi_specs) >= 1
    /\ \A i \in 1 .. Len(h.roi_specs) : ValidROISpec(h.roi_specs[i])

DetectResponse(ok, results, ms, error) ==
    [ok |-> ok, results |-> results, ms |-> ms, error |-> error]

ROIResult(id, circle, error) == [id |-> id, circle |-> circle, error |-> error]

\* ------------------------------------------------- the JSON of a header
\* an int as json.dumps writes it: its decimal digits
RECURSIVE Digits(_)
Digits(n) == IF n < 10 THEN <<n>> ELSE Append(Digits(n \div 10), n % 10)

\* a parser that reads the digits from the wrong end
RECURSIVE NumberLittleEndian(_)
NumberLittleEndian(ds) ==
    IF Len(ds) = 0 THEN 0
    ELSE 10 * NumberLittleEndian(SubSeq(ds, 2, Len(ds))) + ds[1]

\* the int json.loads reads from decimal digits
RECURSIVE Number(_)
Number(ds) ==
    IF Len(ds) = 0 THEN 0
    ELSE 10 * Number(SubSeq(ds, 1, Len(ds) - 1)) + ds[Len(ds)]

\* a JSON object is its members, key and value, in the order written
Has(o, key) == \E i \in 1 .. Len(o) : o[i][1] = key
Get(o, key) == o[CHOOSE i \in 1 .. Len(o) : o[i][1] = key][2]

\* json.dumps of ROISpec.model_dump()
JsonOfROISpec(s) ==
    <<<<"id", s.id>>,
      <<"height", Digits(s.height)>>,
      <<"width", Digits(s.width)>>,
      <<"num_bytes", Digits(s.num_bytes)>>,
      <<"min_radius_px", Digits(s.min_radius_px)>>,
      <<"max_radius_px", Digits(s.max_radius_px)>>>>

\* send_json(sock, header.model_dump()): the payload of the header frame; a
\* header without params has no such member
send_json(h) ==
    <<<<"type", h.type>>>>
    \o (IF h.has_params
        THEN <<<<"params", <<<<"canny_low", Digits(h.canny_low)>>,
                             <<"canny_high", Digits(h.canny_high)>>>>>>>>
        ELSE <<>>)
    \o <<<<"roi_specs", [i \in 1 .. Len(h.roi_specs) |-> JsonOfROISpec(h.roi_specs[i])]>>>>

ROISpecOfJson(o) ==
    ROISpec(Get(o, "id"), Number(Get(o, "height")), Number(Get(o, "width")),
            Number(Get(o, "num_bytes")), Number(Get(o, "min_radius_px")),
            Number(Get(o, "max_radius_px")))

\* recv_json of the payload and the fields model_validate reads from the
\* dict it gives, by key
recv_json(o) ==
    DetectRequest(Get(o, "type"),
                  Has(o, "params"),
                  IF Has(o, "params") THEN Number(Get(Get(o, "params"), "canny_low")) ELSE 0,
                  IF Has(o, "params") THEN Number(Get(Get(o, "params"), "canny_high")) ELSE 0,
                  [i \in 1 .. Len(Get(o, "roi_specs")) |->
                      ROISpecOfJson(Get(o, "roi_specs")[i])])

\* ------------------------------------------------------------ the frames
NoHeader == DetectRequest("none", FALSE, 0, 0, <<>>)

\* a header frame: the object the client encodes, and the request that
\* decoding its payload gives the handler
HeaderFrame(isJson, obj) ==
    [kind |-> "header", json |-> isJson, obj |-> obj,
     req |-> recv_json(send_json(obj)), len |-> 0, px |-> "none"]

BodyFrame(n, px) ==
    [kind |-> "body", json |-> FALSE, obj |-> NoHeader, req |-> NoHeader,
     len |-> n, px |-> px]

\* a well-formed header of n specs, ids in descending name order
GoodSpecs(n) == [i \in 1 .. n |-> ROISpec(IdNames[n - i + 1], 1, 1, 1, 1, 2)]
GoodHeader(n) == DetectRequest("detect", TRUE, 50, 150, GoodSpecs(n))

\* headers of one spec, every field over a range around its constraint
OneSpecHeaders ==
    {DetectRequest("detect", TRUE, 50, 150, <<ROISpec("a", h, w, nb, mn, mx)>>) :
        h \in {0, 1}, w \in {1, 2}, nb \in {0, 1, 2}, mn \in {0, 1, 2}, mx \in {0, 1, 2, 3}}

\* headers that fail on something else than a spec: no params, a threshold
\* out of range, another type, no spec at all
OtherHeaders ==
    {DetectRequest("detect", FALSE, 0, 0, GoodSpecs(1)),
     DetectRequest("detect", TRUE, 50, 256, GoodSpecs(1)),
     DetectRequest("train", TRUE, 50, 150, GoodSpecs(1)),
     DetectRequest("detect", TRUE, 50, 150, <<>>)}

Headers == {GoodHeader(n) : n \in 1 .. MaxRois} \cup OneSpecHeaders \cup OtherHeaders

\* a frame that is no JSON object, and the frames that are
HeaderFrames == {HeaderFrame(TRUE, h) : h \in Headers} \cup {HeaderFrame(FALSE, NoHeader)}

Pixels == {"circle", "blank", "poison"}
BodyFrames == {BodyFrame(n, px) : n \in 1 .. 2, px \in Pixels}

\* the few frames the clients of the many-connection specification send
FewHeaderFrames ==
    {HeaderFrame(TRUE, GoodHeader(1)),
     HeaderFrame(TRUE, DetectRequest("detect", TRUE, 50, 150, <<>>)),
     HeaderFrame(FALSE, NoHeader)}

\* the image each client of the many-client specification crops its ROIs
\* from: the clients differ in what their pixels show
ClientPixels(c) == IF c % 2 = 1 THEN "circle" ELSE "blank"

FewBodyFrames == {BodyFrame(n, px) : n \in 1 .. 2, px \in {"circle", "blank"}}

\* the read fault of the many-connection specification: the stream closes
FewReadFaults == {"ROI decode failed: ConnectionError"}

\* cpu_worker.detect_one_circle_scikit on a pixel buffer: a circle, None, or
\* an exception
Detect(px) ==
    CASE px = "circle" -> "circle"
      [] px = "blank" -> "null"
      [] OTHER -> "raise"

VARIABLES
    shutdownFlag,   \* self._shutdown
    srvPc,          \* where serve() is
    sockFile,       \* the socket file exists
    poolShut,       \* self._executor has been shut down
    pc,             \* where each connection's handler is
    owed,           \* body frames each client has still to send
    nHdr,           \* frames each handler has read as a header
    header,         \* handle_client: header (req, once validated)
    blobs,          \* the body frames read for this header: length and pixels
    roi_reqs,       \* handle_client: roi_reqs
    pool,           \* the futures of each handler's batch in the executor
    results,        \* handle_client: results
    resp,           \* handle_client: res / response, about to be sent
    out,            \* the response frame last written, until the next frame is read
    log,            \* the top-level error of every response frame written
    sent,           \* the header object the client encoded into the frame last decoded
    gone            \* the client has closed its end of a connection the handler holds

vars == <<shutdownFlag, srvPc, sockFile, poolShut, pc, owed, nHdr, header, blobs,
          roi_reqs, pool, results, resp, out, log, sent, gone>>

srvVars == <<shutdownFlag, srvPc, sockFile, poolShut>>
hVars == <<owed, nHdr, header, blobs, roi_reqs, pool, results, resp, out, log, sent, gone>>

NoResponse == DetectResponse(FALSE, <<>>, "null", "none")

Init ==
    /\ shutdownFlag = FALSE
    /\ srvPc = "start"
    /\ sockFile \in BOOLEAN
    /\ poolShut = FALSE
    /\ pc = [c \in Conns |-> "none"]
    /\ owed = [c \in Conns |-> 0]
    /\ nHdr = [c \in Conns |-> 0]
    /\ header = [c \in Conns |-> NoHeader]
    /\ blobs = [c \in Conns |-> <<>>]
    /\ roi_reqs = [c \in Conns |-> <<>>]
    /\ pool = [c \in Conns |-> <<>>]
    /\ results = [c \in Conns |-> <<>>]
    /\ resp = [c \in Conns |-> NoResponse]
    /\ out = [c \in Conns |-> NoResponse]
    /\ log = [c \in Conns |-> <<>>]
    /\ sent = [c \in Conns |-> NoHeader]
    /\ gone = [c \in Conns |-> FALSE]

\* ------------------------------------------------------------- shutdown()
\* a shutdown() that flips the event instead of setting it
ShutdownToggle ==
    /\ shutdownFlag' = ~shutdownFlag
    /\ UNCHANGED <<srvPc, sockFile, poolShut, pc>>
    /\ UNCHANGED hVars

\* if not self._shutdown.is_set(): self._shutdown.set()
Shutdown ==
    /\ shutdownFlag' = TRUE
    /\ UNCHANGED <<srvPc, sockFile, poolShut, pc>>
    /\ UNCHANGED hVars

\* ---------------------------------------------------------------- serve()
\* unlink the stale socket file, bind, listen
ServeStart ==
    /\ srvPc = "start"
    /\ sockFile' = TRUE
    /\ srvPc' = "check"
    /\ UNCHANGED <<shutdownFlag, poolShut, pc>>
    /\ UNCHANGED hVars

\* while not self._shutdown.is_set(); leaving the loop closes the listener
ServeCheck ==
    /\ srvPc = "check"
    /\ srvPc' = IF shutdownFlag THEN "executor_shutdown" ELSE "accept"
    /\ UNCHANGED <<shutdownFlag, sockFile, poolShut, pc>>
    /\ UNCHANGED hVars

\* an accept loop that takes the next connection without going back to the
\* test of the shutdown event
ServeAcceptAgain(c) ==
    /\ srvPc = "accept"
    /\ pc[c] = "none"
    /\ pc' = [pc EXCEPT ![c] = "loop"]
    /\ srvPc' = "accept"
    /\ UNCHANGED <<shutdownFlag, sockFile, poolShut>>
    /\ UNCHANGED hVars

\* srv.accept() returns a connection: a handler thread is started
ServeAccept(c) ==
    /\ srvPc = "accept"
    /\ pc[c] = "none"
    /\ pc' = [pc EXCEPT ![c] = "loop"]
    /\ srvPc' = "check"
    /\ UNCHANGED <<shutdownFlag, sockFile, poolShut>>
    /\ UNCHANGED hVars

\* srv.accept() times out after 0.5 s
ServeAcceptTimeout ==
    /\ srvPc = "accept"
    /\ srvPc' = "check"
    /\ UNCHANGED <<shutdownFlag, sockFile, poolShut, pc>>
    /\ UNCHANGED hVars

AllTasksDone == \A c \in Conns : \A i \in 1 .. Len(pool[c]) : pool[c][i].st = "done"

\* self._executor.shutdown(): from now on submit raises
ServeExecutorShutdown ==
    /\ srvPc = "executor_shutdown"
    /\ poolShut' = TRUE
    /\ srvPc' = "executor_wait"
    /\ UNCHANGED <<shutdownFlag, sockFile, pc>>
    /\ UNCHANGED hVars

\* a shutdown(wait=False): it returns at once
ServeExecutorNoWait ==
    /\ srvPc = "executor_wait"
    /\ srvPc' = "unlink"
    /\ UNCHANGED <<shutdownFlag, sockFile, poolShut, pc>>
    /\ UNCHANGED hVars

\* ... and it returns once every submitted task has finished
ServeExecutorJoined ==
    /\ srvPc = "executor_wait"
    /\ AllTasksDone
    /\ srvPc' = "unlink"
    /\ UNCHANGED <<shutdownFlag, sockFile, poolShut, pc>>
    /\ UNCHANGED hVars

ServeUnlink ==
    /\ srvPc = "unlink"
    /\ sockFile' = FALSE
    /\ srvPc' = "done"
    /\ UNCHANGED <<shutdownFlag, poolShut, pc>>
    /\ UNCHANGED hVars

\* ------------------------------------------------------- handle_client()
\* what a client sends next: the body frames its last header announced
\* first, then a new header
ClientNextKind(c) == IF owed[c] > 0 THEN "body" ELSE "header"

OwedAfter(c, f) ==
    IF f.kind = "header"
    THEN IF f.json THEN Len(f.obj.roi_specs) ELSE 0
    ELSE owed[c] - 1

\* the handler thread ends (finally: conn.close()); its locals are gone
Close(c) ==
    /\ pc' = [pc EXCEPT ![c] = "closed"]
    /\ header' = [header EXCEPT ![c] = NoHeader]
    /\ sent' = [sent EXCEPT ![c] = NoHeader]
    /\ gone' = [gone EXCEPT ![c] = FALSE]
    /\ blobs' = [blobs EXCEPT ![c] = <<>>]
    /\ roi_reqs' = [roi_reqs EXCEPT ![c] = <<>>]
    /\ results' = [results EXCEPT ![c] = <<>>]
    /\ resp' = [resp EXCEPT ![c] = NoResponse]

\* while not self._shutdown.is_set(): ... finally: conn.close()
HandlerLoop(c) ==
    /\ pc[c] = "loop"
    /\ IF shutdownFlag
       THEN Close(c)
       ELSE /\ pc' = [pc EXCEPT ![c] = "recv_header"]
            /\ UNCHANGED <<header, sent, gone, blobs, roi_reqs, results, resp>>
    /\ UNCHANGED srvVars
    /\ UNCHANGED <<owed, nHdr, pool, out, log>>

\* a frame arrives where the handler reads a header: what is left of the
\* exchange before is dropped
ReadHeaderFrame(c, f) ==
    /\ pc[c] = "recv_header"
    /\ nHdr[c] < MaxReq
    /\ f.kind = ClientNextKind(c)
    /\ nHdr' = [nHdr EXCEPT ![c] = @ + 1]
    /\ owed' = [owed EXCEPT ![c] = OwedAfter(c, f)]
    /\ pool' = [pool EXCEPT ![c] = <<>>]
    /\ out' = [out EXCEPT ![c] = NoResponse]

\* recv_json raises on a frame that is not a JSON object: break
RecvHeaderUndecodable(c, f) ==
    /\ ReadHeaderFrame(c, f)
    /\ ~f.json
    /\ Close(c)
    /\ UNCHANGED srvVars
    /\ UNCHANGED log

\* a handler that answers a bad header and then breaks instead of continuing
RecvHeaderInvalidBreak(c, f) ==
    /\ pc[c] = "recv_header"
    /\ nHdr[c] < MaxReq
    /\ f.kind = ClientNextKind(c)
    /\ f.json
    /\ ~ValidRequest(f.req)
    /\ nHdr' = [nHdr EXCEPT ![c] = @ + 1]
    /\ owed' = [owed EXCEPT ![c] = OwedAfter(c, f)]
    /\ pool' = [pool EXCEPT ![c] = <<>>]
    /\ out' = [out EXCEPT ![c] = DetectResponse(FALSE, <<>>, "null", "Bad request")]
    /\ log' = [log EXCEPT ![c] = Append(@, "Bad request")]
    /\ Close(c)
    /\ UNCHANGED srvVars

\* a handler that reads the body frames a rejected header announced before
\* it answers
RecvHeaderInvalidDrained(c, f) ==
    /\ pc[c] = "recv_header"
    /\ nHdr[c] < MaxReq
    /\ f.kind = ClientNextKind(c)
    /\ f.json
    /\ ~ValidRequest(f.req)
    /\ nHdr' = [nHdr EXCEPT ![c] = @ + 1]
    /\ owed' = [owed EXCEPT ![c] = 0]
    /\ pool' = [pool EXCEPT ![c] = <<>>]
    /\ out' = [out EXCEPT ![c] = NoResponse]
    /\ header' = [header EXCEPT ![c] = f.req]
    /\ sent' = [sent EXCEPT ![c] = f.obj]
    /\ blobs' = [blobs EXCEPT ![c] = <<>>]
    /\ roi_reqs' = [roi_reqs EXCEPT ![c] = <<>>]
    /\ results' = [results EXCEPT ![c] = <<>>]
    /\ resp' = [resp EXCEPT ![c] = DetectResponse(FALSE, <<>>, "null", "Bad request")]
    /\ pc' = [pc EXCEPT ![c] = "send"]
    /\ UNCHANGED srvVars
    /\ UNCHANGED <<log, gone>>

\* DetectRequest.model_validate raises: a "Bad request" response, continue
RecvHeaderInvalid(c, f) ==
    /\ ReadHeaderFrame(c, f)
    /\ f.json
    /\ ~ValidRequest(f.req)
    /\ header' = [header EXCEPT ![c] = f.req]
    /\ sent' = [sent EXCEPT ![c] = f.obj]
    /\ UNCHANGED gone
    /\ blobs' = [blobs EXCEPT ![c] = <<>>]
    /\ roi_reqs' = [roi_reqs EXCEPT ![c] = <<>>]
    /\ results' = [results EXCEPT ![c] = <<>>]
    /\ resp' = [resp EXCEPT ![c] = DetectResponse(FALSE, <<>>, "null", "Bad request")]
    /\ pc' = [pc EXCEPT ![c] = "send"]
    /\ UNCHANGED srvVars
    /\ UNCHANGED log

\* the header validates: roi_reqs = [] and the body frames are read next
RecvHeaderValid(c, f) ==
    /\ ReadHeaderFrame(c, f)
    /\ f.json
    /\ ValidRequest(f.req)
    /\ header' = [header EXCEPT ![c] = f.req]
    /\ sent' = [sent EXCEPT ![c] = f.obj]
    /\ UNCHANGED gone
    /\ blobs' = [blobs EXCEPT ![c] = <<>>]
    /\ roi_reqs' = [roi_reqs EXCEPT ![c] = <<>>]
    /\ results' = [results EXCEPT ![c] = <<>>]
    /\ resp' = [resp EXCEPT ![c] = NoResponse]
    /\ pc' = [pc EXCEPT ![c] = "recv_body"]
    /\ UNCHANGED srvVars
    /\ UNCHANGED log

\* a handler that answers a failed header read before it breaks
RecvHeaderFailAnswered(c) ==
    /\ pc[c] = "recv_header"
    /\ out' = [out EXCEPT ![c] = DetectResponse(FALSE, <<>>, "null", "Bad request")]
    /\ log' = [log EXCEPT ![c] = Append(@, "Bad request")]
    /\ Close(c)
    /\ UNCHANGED srvVars
    /\ UNCHANGED <<owed, nHdr, pool>>

\* recv_exact raises (the stream closed, or the 30 s timeout): break
RecvHeaderFail(c) ==
    /\ pc[c] = "recv_header"
    /\ Close(c)
    /\ UNCHANGED srvVars
    /\ UNCHANGED <<owed, nHdr, pool, out, log>>

\* the spec of the body frame read next
NextSpec(c) == header[c].roi_specs[Len(roi_reqs[c]) + 1]

\* what reading one body frame against its spec raises, "" when nothing
BlobError(spec, f) ==
    IF f.len # spec.num_bytes THEN "ROI decode failed: ROI bytes mismatch"
    ELSE IF f.len # spec.height * spec.width THEN "ROI decode failed: ROI size mismatch"
    ELSE ""

ROIRequest(spec, f) ==
    [id |-> spec.id, roi |-> f.px, min_radius_px |-> spec.min_radius_px,
     max_radius_px |-> spec.max_radius_px]

ReadBodyFrame(c, f) ==
    /\ pc[c] = "recv_body"
    /\ f.kind = "body"
    /\ f.kind = ClientNextKind(c)
    /\ owed' = [owed EXCEPT ![c] = OwedAfter(c, f)]
    /\ blobs' = [blobs EXCEPT ![c] = Append(@, [len |-> f.len, px |-> f.px])]

\* a handler that submits the task of each body frame as soon as the frame
\* has passed its checks
RecvBodyEager(c, f) ==
    /\ ReadBodyFrame(c, f)
    /\ BlobError(NextSpec(c), f) = ""
    /\ roi_reqs' = [roi_reqs EXCEPT ![c] = Append(@, ROIRequest(NextSpec(c), f))]
    /\ pool' = [pool EXCEPT ![c] = Append(@, [st |-> "pending", px |-> f.px])]
    /\ pc' = [pc EXCEPT ![c] =
                IF Len(roi_reqs[c]) + 1 = Len(header[c].roi_specs)
                THEN "collect" ELSE "recv_body"]
    /\ UNCHANGED srvVars
    /\ UNCHANGED <<nHdr, header, sent, gone, results, resp, out, log>>

\* a body frame that matches its spec is appended to roi_reqs; after the
\* last one the batch is dispatched (futures = [])
RecvBody(c, f) ==
    /\ ReadBodyFrame(c, f)
    /\ BlobError(NextSpec(c), f) = ""
    /\ roi_reqs' = [roi_reqs EXCEPT ![c] = Append(@, ROIRequest(NextSpec(c), f))]
    /\ pc' = [pc EXCEPT ![c] =
                IF Len(roi_reqs[c]) + 1 = Len(header[c].roi_specs)
                THEN "submit" ELSE "recv_body"]
    /\ UNCHANGED srvVars
    /\ UNCHANGED <<nHdr, header, sent, gone, pool, results, resp, out, log>>

\* a body frame that does not match its spec: a "ROI decode failed"
\* response, continue
RecvBodyMismatch(c, f) ==
    /\ ReadBodyFrame(c, f)
    /\ BlobError(NextSpec(c), f) # ""
    /\ resp' = [resp EXCEPT ![c] =
                  DetectResponse(FALSE, <<>>, "null", BlobError(NextSpec(c), f))]
    /\ pc' = [pc EXCEPT ![c] = "send"]
    /\ UNCHANGED srvVars
    /\ UNCHANGED <<nHdr, header, sent, gone, roi_reqs, pool, results, out, log>>

ReadFaults == {"ROI decode failed: ConnectionError", "ROI decode failed: TimeoutError"}

\* recv_msg raises inside the try that reads the body frames (the stream
\* closed, or the 30 s timeout): the same except clause answers it
RecvBodyFail(c, e) ==
    /\ pc[c] = "recv_body"
    /\ e \in ReadFaults
    /\ resp' = [resp EXCEPT ![c] = DetectResponse(FALSE, <<>>, "null", e)]
    /\ pc' = [pc EXCEPT ![c] = "send"]
    /\ UNCHANGED srvVars
    /\ UNCHANGED <<owed, nHdr, header, sent, gone, blobs, roi_reqs, pool, results, out, log>>

\* self._executor.submit for the next roi_req; after the last, results = []
Submit(c) ==
    /\ pc[c] = "submit"
    /\ ~poolShut
    /\ pool' = [pool EXCEPT ![c] =
                  Append(@, [st |-> "pending", px |-> roi_reqs[c][Len(@) + 1].roi])]
    /\ pc' = [pc EXCEPT ![c] =
                IF Len(pool[c]) + 1 = Len(roi_reqs[c]) THEN "collect" ELSE "submit"]
    /\ UNCHANGED srvVars
    /\ UNCHANGED <<owed, nHdr, header, sent, gone, blobs, roi_reqs, results, resp, out, log>>

\* submit raises RuntimeError on a pool that was shut down: nothing catches
\* it, the handler ends in its finally clause
SubmitRejected(c) ==
    /\ pc[c] = "submit"
    /\ poolShut
    /\ Close(c)
    /\ UNCHANGED srvVars
    /\ UNCHANGED <<owed, nHdr, pool, out, log>>

\* a collection that pairs the futures with the batch in reverse
CollectedReversed(c, i) ==
    LET o == Detect(pool[c][i].px)
        id == roi_reqs[c][Len(roi_reqs[c]) - i + 1].id
    IN  IF o = "raise" THEN ROIResult(id, "null", "repr(e)") ELSE ROIResult(id, o, "null")

\* a collection in which a fault also fails the items collected after it
CollectedFaultSpreads(c, i) ==
    IF \E j \in 1 .. i : Detect(pool[c][j].px) = "raise"
    THEN ROIResult(roi_reqs[c][i].id, "null", "repr(e)")
    ELSE ROIResult(roi_reqs[c][i].id, Detect(pool[c][i].px), "null")

\* a collection that looks the i-th result up by position in the pool as a
\* whole: it takes the first batch that has a task at that position
CollectedByPosition(c, i) ==
    LET d == CHOOSE d \in Conns :
                 /\ Len(pool[d]) >= i
                 /\ \A e \in Conns : Len(pool[e]) >= i => d <= e
        o == Detect(pool[d][i].px)
    IN  IF o = "raise"
        THEN ROIResult(roi_reqs[c][i].id, "null", "repr(e)")
        ELSE ROIResult(roi_reqs[c][i].id, o, "null")

\* the result of the i-th future, as the collection loop records it
Collected(c, i) ==
    LET o == Detect(pool[c][i].px)
    IN  IF o = "raise"
        THEN ROIResult(roi_reqs[c][i].id, "null", "repr(e)")
        ELSE ROIResult(roi_reqs[c][i].id, o, "null")

\* a collection that reports the fault of an item at the top level of the
\* ok response as well
CollectTopLevelError(c) ==
    /\ pc[c] = "collect"
    /\ LET i == Len(results[c]) + 1
       IN  /\ pool[c][i].st = "done"
           /\ results' = [results EXCEPT ![c] = Append(@, Collected(c, i))]
           /\ IF i = Len(roi_reqs[c])
              THEN /\ resp' = [resp EXCEPT ![c] =
                         DetectResponse(TRUE, results'[c], "ms",
                             IF \E j \in 1 .. i : results'[c][j].error # "null"
                             THEN "repr(e)" ELSE "null")]
                   /\ pc' = [pc EXCEPT ![c] = "send"]
              ELSE UNCHANGED <<pc, resp>>
    /\ UNCHANGED srvVars
    /\ UNCHANGED <<owed, nHdr, header, sent, gone, blobs, roi_reqs, pool, out, log>>

\* future.result() of the next future, in submission order; after the last
\* one the ok response is built
Collect(c) ==
    /\ pc[c] = "collect"
    /\ LET i == Len(results[c]) + 1
       IN  /\ pool[c][i].st = "done"
           /\ results' = [results EXCEPT ![c] = Append(@, Collected(c, i))]
           /\ IF i = Len(roi_reqs[c])
              THEN /\ resp' = [resp EXCEPT ![c] =
                         DetectResponse(TRUE, results'[c], "ms", "null")]
                   /\ pc' = [pc EXCEPT ![c] = "send"]
              ELSE UNCHANGED <<pc, resp>>
    /\ UNCHANGED srvVars
    /\ UNCHANGED <<owed, nHdr, header, sent, gone, blobs, roi_reqs, pool, out, log>>

\* send_json writes the response frame; the loop goes on
Send(c) ==
    /\ pc[c] = "send"
    /\ ~gone[c]
    /\ out' = [out EXCEPT ![c] = resp[c]]
    /\ log' = [log EXCEPT ![c] = Append(@, resp[c].error)]
    /\ pc' = [pc EXCEPT ![c] = "loop"]
    /\ UNCHANGED srvVars
    /\ UNCHANGED <<owed, nHdr, header, sent, gone, blobs, roi_reqs, pool, results, resp>>

\* send_json raises (the peer is gone): the handler ends
SendFail(c) ==
    /\ pc[c] = "send"
    /\ Close(c)
    /\ UNCHANGED srvVars
    /\ UNCHANGED <<owed, nHdr, pool, out, log>>

\* the client gives up while the handler waits for the futures of its
\* batch (the socket timeout of detect_circles_batch, or the with block left)
ClientDisconnect(c) ==
    /\ pc[c] = "collect"
    /\ ~gone[c]
    /\ gone' = [gone EXCEPT ![c] = TRUE]
    /\ UNCHANGED srvVars
    /\ UNCHANGED <<pc, owed, nHdr, header, sent, blobs, roi_reqs, pool, results, resp, out, log>>

\* ------------------------------------------------------------- the pool
\* a pool that drops the tasks of a batch whose client has disconnected
TaskRunWhileConnected(c, i) ==
    /\ ~gone[c]
    /\ i \in 1 .. Len(pool[c])
    /\ pool[c][i].st = "pending"
    /\ pool' = [pool EXCEPT ![c][i].st = "done"]
    /\ UNCHANGED srvVars
    /\ UNCHANGED <<pc, owed, nHdr, header, sent, gone, blobs, roi_reqs, results, resp, out, log>>

\* a worker process runs a pending task to its end (a circle, None or an
\* exception): its future is done
TaskRun(c, i) ==
    /\ i \in 1 .. Len(pool[c])
    /\ pool[c][i].st = "pending"
    /\ pool' = [pool EXCEPT ![c][i].st = "done"]
    /\ UNCHANGED srvVars
    /\ UNCHANGED <<pc, owed, nHdr, header, sent, gone, blobs, roi_reqs, results, resp, out, log>>

\* ----------------------------------------------------- the specifications
Serve ==
    \/ ServeStart
    \/ ServeCheck
    \/ \E c \in Conns : ServeAccept(c)
    \/ ServeAcceptTimeout
    \/ ServeExecutorShutdown
    \/ ServeExecutorJoined
    \/ ServeUnlink

Tasks == \E c \in Conns, i \in 1 .. MaxRois : TaskRun(c, i)

\* one client connects; its frames are any of HeaderFrames and BodyFrames
Next ==
    \/ Shutdown
    \/ ServeStart
    \/ ServeCheck
    \/ ServeAccept(1)
    \/ ServeAcceptTimeout
    \/ ServeExecutorShutdown
    \/ ServeExecutorJoined
    \/ ServeUnlink
    \/ HandlerLoop(1)
    \/ \E f \in HeaderFrames \cup BodyFrames : RecvHeaderUndecodable(1, f)
    \/ \E f \in HeaderFrames : RecvHeaderInvalid(1, f)
    \/ \E f \in HeaderFrames : RecvHeaderValid(1, f)
    \/ RecvHeaderFail(1)
    \/ \E f \in BodyFrames : RecvBody(1, f)
    \/ \E f \in BodyFrames : RecvBodyMismatch(1, f)
    \/ \E e \in ReadFaults : RecvBodyFail(1, e)
    \/ Submit(1)
    \/ SubmitRejected(1)
    \/ Collect(1)
    \/ Send(1)
    \/ SendFail(1)
    \/ \E i \in 1 .. MaxRois : TaskRun(1, i)

Spec == Init /\ [][Next]_vars

\* every connection is used; each client does one exchange, as
\* client.detect_circles_batch does, with the few frames
NextAll ==
    \/ Shutdown
    \/ ServeStart
    \/ ServeCheck
    \/ \E c \in Conns : ServeAccept(c)
    \/ ServeAcceptTimeout
    \/ ServeExecutorShutdown
    \/ ServeExecutorJoined
    \/ ServeUnlink
    \/ \E c \in Conns : HandlerLoop(c)
    \/ \E c \in Conns, f \in FewHeaderFrames :
          nHdr[c] = 0 /\ RecvHeaderUndecodable(c, f)
    \/ \E c \in Conns, f \in FewHeaderFrames :
          nHdr[c] = 0 /\ RecvHeaderInvalid(c, f)
    \/ \E c \in Conns, f \in FewHeaderFrames :
          nHdr[c] = 0 /\ RecvHeaderValid(c, f)
    \/ \E c \in Conns : RecvHeaderFail(c)
    \/ \E c \in Conns, f \in FewBodyFrames :
          f.px = ClientPixels(c) /\ RecvBody(c, f)
    \/ \E c \in Conns, f \in FewBodyFrames :
          f.px = ClientPixels(c) /\ RecvBodyMismatch(c, f)
    \/ \E c \in Conns, e \in FewReadFaults : RecvBodyFail(c, e)
    \/ \E c \in Conns : Submit(c)
    \/ \E c \in Conns : SubmitRejected(c)
    \/ \E c \in Conns : Collect(c)
    \/ \E c \in Conns : Send(c)
    \/ \E c \in Conns : SendFail(c)
    \/ \E c \in Conns : ClientDisconnect(c)
    \/ Tasks

SpecAll == Init /\ [][NextAll]_vars

\* serve() and the worker processes keep running
FairSpec == SpecAll /\ WF_vars(Serve) /\ WF_vars(Tasks)

\* ---------------------------------------------------------- the client
\* client.detect_circles_batch on the response frame it reads: it raises on
\* ok=false and returns the results as they are otherwise
ClientReturn(r) == [raised |-> ~r.ok, results |-> IF r.ok THEN r.results ELSE <<>>]

\* -------------------------------------------------------------- the claims
Specs(c) == header[c].roi_specs

\* a response frame has been written for the header last read on c
Answered(c) == out[c] # NoResponse

\* every body frame the header announces was received and matches its spec
BodiesMatch(c) ==
    /\ Len(blobs[c]) = Len(Specs(c))
    /\ \A i \in 1 .. Len(Specs(c)) :
          /\ blobs[c][i].len = Specs(c)[i].num_bytes
          /\ blobs[c][i].len = Specs(c)[i].height * Specs(c)[i].width

FailureShape(r) == ~r.ok /\ r.error # "null" /\ r.results = <<>>

\* C1: the response to a request whose header validates and whose body
\* frames all match has ok=true and one result per ROI spec, with the ids
\* in the order of the header, whatever the order the tasks finished in;
\* the client returns that list
C1_ResultsInRequestOrder ==
    \A c \in Conns :
        (Answered(c) /\ ValidRequest(header[c]) /\ BodiesMatch(c)) =>
            /\ out[c].ok
            /\ ~ClientReturn(out[c]).raised
            /\ Len(ClientReturn(out[c]).results) = Len(Specs(c))
            /\ \A i \in 1 .. Len(Specs(c)) :
                  ClientReturn(out[c]).results[i].id = Specs(c)[i].id

C1_Witness ==
    \E c \in Conns :
        /\ out[c].ok
        /\ Len(out[c].results) >= 2
        /\ out[c].results[1].id # out[c].results[2].id

\* C2: in a dispatched batch the items whose task raises, and only they,
\* have a non-null error and a null shape; every other item has the shape
\* or null its own pixels give, and the response is ok with all the items
C2_FaultsStayWithTheirItem ==
    \A c \in Conns :
        (Answered(c) /\ ValidRequest(header[c]) /\ BodiesMatch(c)) =>
            /\ out[c].ok
            /\ Len(out[c].results) = Len(Specs(c))
            /\ \A i \in 1 .. Len(Specs(c)) :
                  LET r == out[c].results[i]
                      o == Detect(blobs[c][i].px)
                  IN  /\ r.id = Specs(c)[i].id
                      /\ (o = "raise") => (r.error # "null" /\ r.circle = "null")
                      /\ (o # "raise") => (r.error = "null" /\ r.circle = o)

C2_Witness ==
    \E c \in Conns :
        /\ out[c].ok
        /\ Len(out[c].results) >= 2
        /\ out[c].results[1].error # "null"
        /\ out[c].results[2].error = "null"
        /\ out[c].results[2].circle = "circle"

\* C3: a header that decodes and fails validation is answered by one
\* response with ok=false, a top-level error and no results; writing it
\* leaves the connection open (the handler is back at the top of its
\* loop), and a valid request read next on the connection is answered with
\* ok=true and its results
C3_BadHeaderAnswered ==
    \A c \in Conns :
        /\ (Answered(c) /\ header[c].type # "none" /\ ~ValidRequest(header[c])) =>
              (FailureShape(out[c]) /\ Len(log[c]) = nHdr[c])
        /\ (/\ Answered(c)
            /\ Len(log[c]) >= 2
            /\ log[c][Len(log[c]) - 1] = "Bad request"
            /\ ValidRequest(header[c])
            /\ BodiesMatch(c)) =>
              (out[c].ok /\ Len(out[c].results) = Len(Specs(c)))

C3_StaysOpen ==
    \A c \in Conns :
        (Len(log'[c]) = Len(log[c]) + 1 /\ out'[c].error = "Bad request") =>
            pc'[c] = "loop"

C3_BadHeaderKeepsConnection == []C3_BadHeaderAnswered /\ [][C3_StaysOpen]_vars

C3_Witness ==
    \E c \in Conns :
        /\ Len(log[c]) = 2
        /\ log[c][1] = "Bad request"
        /\ out[c].ok

\* C4: once a response to a body frame that does not match its spec has
\* been written, the handler reads no further frame from the connection
MismatchErrors == {"ROI decode failed: ROI bytes mismatch", "ROI decode failed: ROI size mismatch"}

C4_ClosedAfterMismatch ==
    \A c \in Conns :
        \A k \in 1 .. Len(log[c]) : (log[c][k] \in MismatchErrors) => nHdr[c] <= k

\* C5: a header with a spec whose num_bytes differs from height*width is
\* rejected by validation: no body frame is read for it and no task runs
C5_ByteCountValidated ==
    \A c \in Conns :
        (\E i \in 1 .. Len(Specs(c)) :
            Specs(c)[i].num_bytes # Specs(c)[i].height * Specs(c)[i].width)
        => pc[c] \notin {"recv_body", "submit", "collect"}

\* C6: a header with a spec whose max radius is not above its min radius,
\* or whose min radius is not positive, is answered with the failure
\* response and goes no further; a header whose specs have max > min > 0
\* and whose other fields are valid is not rejected
BadRadii(s) == s.max_radius_px <= s.min_radius_px \/ s.min_radius_px <= 0

WellFormed(h) ==
    /\ h.type = "detect"
    /\ h.has_params
    /\ h.canny_low \in 0 .. 255
    /\ h.canny_high \in 0 .. 255
    /\ Len(h.roi_specs) >= 1
    /\ \A i \in 1 .. Len(h.roi_specs) :
          LET s == h.roi_specs[i]
          IN  /\ s.height > 0 /\ s.width > 0 /\ s.num_bytes > 0
              /\ s.max_radius_px > s.min_radius_px /\ s.min_radius_px > 0

C6_RadiiValidated ==
    \A c \in Conns :
        /\ (\E i \in 1 .. Len(Specs(c)) : BadRadii(Specs(c)[i])) =>
              /\ pc[c] \in {"send", "loop", "recv_header"}
              /\ FailureShape(resp[c])
              /\ resp[c].error = "Bad request"
              /\ out[c] \in {NoResponse, resp[c]}
        /\ WellFormed(header[c]) =>
              /\ resp[c].error # "Bad request"
              /\ pc[c] \in {"recv_body", "submit", "collect"} \/ resp[c] # NoResponse

C6_Witness ==
    \E c \in Conns :
        /\ Len(Specs(c)) = 1
        /\ Specs(c)[1].min_radius_px > 0
        /\ Specs(c)[1].max_radius_px = Specs(c)[1].min_radius_px
        /\ out[c].error = "Bad request"

\* C7: no response frame is written for an exchange in which a read of a
\* frame failed (the stream closed, or the read timed out)
C7_SilentOnReadFault ==
    \A c \in Conns : \A k \in 1 .. Len(log[c]) : log[c][k] \notin ReadFaults

\* C8: a handler has written one response for every header frame it read
\* before it reads the next one, and never more responses than it has read
\* header frames
C8_OneResponsePerHeader ==
    \A c \in Conns :
        /\ Len(log[c]) <= nHdr[c]
        /\ nHdr[c] <= Len(log[c]) + 1
        /\ (pc[c] = "recv_header") => (Len(log[c]) = nHdr[c])

C8_Witness == \E c \in Conns : nHdr[c] = 2 /\ Len(log[c]) = 2 /\ pc[c] = "recv_header"

\* C9: the pool is never shut down while a handler is in the middle of an
\* exchange with tasks still to submit
C9_PoolOutlivesExchanges ==
    \A c \in Conns : ~(poolShut /\ pc[c] \in {"recv_body", "submit"})

\* C10: once shutdown() has been called on a serving server, serve() leaves
\* the accept loop, shuts the pool down, returns from that only when every
\* submitted task has finished, removes the socket file and returns
C10_Order ==
    /\ poolShut => srvPc \in {"executor_wait", "unlink", "done"}
    /\ (srvPc \in {"unlink", "done"}) => (poolShut /\ AllTasksDone)
    /\ (srvPc \in {"check", "accept", "executor_shutdown", "executor_wait", "unlink"}) => sockFile
    /\ (srvPc = "done") => ~sockFile

C10_ServeReturns ==
    /\ []C10_Order
    /\ (shutdownFlag /\ srvPc # "start") ~> (srvPc = "done")

C10_Witness ==
    /\ srvPc = "done"
    /\ shutdownFlag
    /\ \E c \in Conns : pool[c] # <<>> /\ pc[c] = "collect"

\* C11: shutdown() is idempotent: a call made when the event is already set
\* changes nothing, the event is never cleared again whatever serve() and
\* the handlers do in between, and a call touches nothing but the event
C11_Step ==
    /\ shutdownFlag => shutdownFlag'
    /\ (shutdownFlag /\ Shutdown) => UNCHANGED vars
    /\ (shutdownFlag' # shutdownFlag) =>
          UNCHANGED <<srvPc, sockFile, poolShut, pc, owed, nHdr, header, blobs,
                      roi_reqs, pool, results, resp, out, log, sent, gone>>

C11_ShutdownIdempotent == [][C11_Step]_vars

C11_Witness ==
    /\ shutdownFlag
    /\ ENABLED Shutdown
    /\ srvPc = "accept"
    /\ \E c \in Conns : pc[c] = "collect"

\* C12: with several handlers submitting to the shared pool, in every
\* interleaving of submissions and task completions, each result a handler
\* collects and each result in the response it writes is the outcome of
\* the pixels this handler received for that position of its own batch
OwnOutcome(c, i) ==
    LET o == Detect(blobs[c][i].px)
    IN  IF o = "raise"
        THEN ROIResult(Specs(c)[i].id, "null", "repr(e)")
        ELSE ROIResult(Specs(c)[i].id, o, "null")

C12_NoCrossTalk ==
    \A c \in Conns :
        /\ \A i \in 1 .. Len(results[c]) : results[c][i] = OwnOutcome(c, i)
        /\ (Answered(c) /\ out[c].ok /\ pc[c] # "closed") =>
              /\ Len(out[c].results) = Len(Specs(c))
              /\ \A i \in 1 .. Len(Specs(c)) : out[c].results[i] = OwnOutcome(c, i)

C12_Witness ==
    \E c, d \in Conns :
        /\ c < d
        /\ pc[c] = "loop" /\ pc[d] = "loop"
        /\ out[c].ok /\ out[d].ok
        /\ out[c].results[1].circle # out[d].results[1].circle

\* C13: once a batch is submitted a client disconnect cancels nothing: a
\* pending task stays in the pool until it is done; the tasks of a
\* disconnected client never stay pending for ever, again and again every
\* such task is done (which frees its worker); and when the handler of a
\* disconnected client leaves its send it closes without a frame having
\* been written on any connection
C13_NoCancel ==
    \A c \in Conns : \A i \in 1 .. Len(pool[c]) :
        pool[c][i].st = "pending" =>
            /\ Len(pool'[c]) >= i
            /\ pool'[c][i].px = pool[c][i].px
            /\ pool'[c][i].st \in {"pending", "done"}

C13_Discarded ==
    \A c \in Conns :
        (gone[c] /\ pc[c] = "send" /\ pc'[c] # "send") =>
            (pc'[c] = "closed" /\ out' = out /\ log' = log)

C13_AllDone(c) == \A i \in 1 .. Len(pool[c]) : pool[c][i].st = "done"

C13_TasksSurviveDisconnect ==
    /\ [][C13_NoCancel /\ C13_Discarded]_vars
    /\ []<>(\A c \in Conns : gone[c] => C13_AllDone(c))

C13_Witness ==
    \E c \in Conns :
        /\ gone[c]
        /\ pc[c] = "send"
        /\ resp[c].ok
        /\ \A i \in 1 .. Len(pool[c]) : pool[c][i].st = "done"

\* C14: from the rejection of a header until the next frame is read, so
\* also when the failure response is written, the handler has read the
\* header frame and nothing after it: no body frame is taken and every
\* body frame the client announced is still to come
C14_OnlyHeaderConsumed ==
    \A c \in Conns :
        (header[c] # NoHeader /\ ~ValidRequest(header[c])) =>
            /\ pc[c] \in {"send", "loop", "recv_header"}
            /\ blobs[c] = <<>>
            /\ owed[c] = Len(sent[c].roi_specs)

C14_Witness ==
    \E c \in Conns :
        /\ pc[c] = "loop"
        /\ out[c].error = "Bad request"
        /\ ~ValidRequest(header[c])
        /\ owed[c] >= 1

\* C15: a valid request header, encoded by send_json and decoded from the
\* frame by recv_json and validation, gives the handler a request equal to
\* the one the client encoded
C15_HeaderRoundTrip ==
    \A c \in Conns :
        (sent[c] # NoHeader /\ ValidRequest(sent[c])) =>
            /\ header[c] = sent[c]
            /\ pc[c] # "send" \/ resp[c].error # "Bad request"

C15_Witness ==
    \E c \in Conns :
        /\ ValidRequest(sent[c])
        /\ header[c] = sent[c]
        /\ header[c].canny_high = 150
        /\ Len(header[c].roi_specs) = 2
        /\ header[c].roi_specs[1].max_radius_px = 2
        /\ pc[c] = "recv_body"

\* C16: a frame that was read in full as a header is never dropped in
\* silence: when its payload does not decode to a JSON object, as when it
\* decodes and fails validation, the handler goes on to send a failure
\* response and the connection stays open
C16_Step ==
    \A c \in Conns :
        (nHdr'[c] = nHdr[c] + 1 /\ ~ValidRequest(header'[c])) =>
            /\ pc'[c] = "send"
            /\ FailureShape(resp'[c])

C16_MalformedHeaderAnswered == [][C16_Step]_vars

\* C17: with a client that sends each request as a header frame and then
\* one body frame per ROI spec of it, the handler reads a frame as a header
\* only when the client has no body frame of an earlier request left to
\* send, and reads a frame as pixel data only when the client is sending
\* the body frames of the header the handler accepted
C17_Step ==
    \A c \in Conns :
        /\ (nHdr'[c] = nHdr[c] + 1) => owed[c] = 0
        /\ (Len(blobs'[c]) = Len(blobs[c]) + 1) =>
              /\ owed[c] > 0
              /\ ValidRequest(header[c])
              /\ header[c] = sent[c]

C17_PhaseAgreement == [][C17_Step]_vars

\* C18: once shutdown has been requested no connection is accepted and no
\* frame is read as a request header
C18_Step ==
    shutdownFlag =>
        \A c \in Conns :
            /\ pc[c] = "none" => pc'[c] = "none"
            /\ nHdr'[c] = nHdr[c]

C18_AmendedStep ==
    /\ (shutdownFlag /\ srvPc' = "accept") => srvPc = "accept"
    /\ \A c \in Conns :
          /\ (shutdownFlag /\ pc'[c] = "recv_header") => pc[c] = "recv_header"
          /\ (pc[c] = "none" /\ pc'[c] # "none") => (srvPc = "accept" /\ srvPc' = "check")
          /\ (nHdr'[c] # nHdr[c]) => (pc[c] = "recv_header" /\ pc'[c] # "recv_header")

C19_Step ==
    \A c \in Conns :
        (Len(pool'[c]) > Len(pool[c])) =>
            /\ ValidRequest(header'[c])
            /\ Len(blobs'[c]) = Len(header'[c].roi_specs)
            /\ Len(roi_reqs'[c]) = Len(header'[c].roi_specs)
            /\ \A i \in 1 .. Len(header'[c].roi_specs) :
                  /\ blobs'[c][i].len = header'[c].roi_specs[i].num_bytes
                  /\ blobs'[c][i].len =
                        header'[c].roi_specs[i].height * header'[c].roi_specs[i].width

C19_NoneDispatched ==
    \A c \in Conns :
        /\ pc[c] = "recv_body" => pool[c] = <<>>
        /\ (resp[c] # NoResponse /\ ~resp[c].ok) => pool[c] = <<>>
        /\ (Answered(c) /\ ~out[c].ok /\ pc[c] # "closed") => pool[c] = <<>>

C19_DispatchAllOrNothing == []C19_NoneDispatched /\ [][C19_Step]_vars

C19_Witness ==
    \E c \in Conns :
        /\ Len(Specs(c)) = 2
        /\ Len(blobs[c]) = 2
        /\ Len(roi_reqs[c]) = 1
        /\ Answered(c)
        /\ out[c].error \in MismatchErrors
        /\ pool[c] = <<>>

\* C20: every response frame written is a failure (ok=false, a top-level
\* error, no results, no elapsed time) or a success (ok=true, no top-level
\* error, an elapsed time, one result per ROI spec) and never a mix; a
\* top-level error goes only with a batch of which no task was dispatched
SuccessShape(r, n) ==
    r.ok /\ r.error = "null" /\ r.ms # "null" /\ Len(r.results) = n

C20_Shape(c, r) ==
    /\ (FailureShape(r) /\ r.ms = "null") \/ SuccessShape(r, Len(Specs(c)))
    /\ ~(FailureShape(r) /\ SuccessShape(r, Len(Specs(c))))
    /\ r.error # "null" => pool[c] = <<>>

C20_TwoShapes ==
    \A c \in Conns :
        /\ (Answered(c) /\ pc[c] # "closed") => C20_Shape(c, out[c])
        /\ pc[c] = "send" => C20_Shape(c, resp[c])

C20_Witness ==
    \E c \in Conns :
        /\ Len(log[c]) = 2
        /\ log[c][1] # "null"
        /\ out[c].ok
        /\ \E i \in 1 .. Len(out[c].results) : out[c].results[i].error # "null"

====
